---- MODULE Spec2Model ----
(***************************************************************************)
(* Checkpoint lifecycle of the project orchestrator: draft creation (GUI   *)
(* CheckpointFrame, CLI 'new'), review dialog, finalize                     *)
(* (update_checkpoint_file), commit clean-up, project scaffolding, and the  *)
(* orchestrator state file that holds each project's latest_checkpoint.    *)
(*                                                                         *)
(* Project names are sequences of their '-'-separated segments, so that    *)
(* the glob patterns "*-{project}-checkpoint-*.yaml" can be evaluated as   *)
(* the code evaluates them (a suffix match on the file name).              *)
(* Time is a logical clock in ticks; file names carry the clock truncated  *)
(* to seconds (strftime '%Y-%m-%d-%H%M%S'), ctimes carry the full clock.   *)
(* An operation that writes a file reads the clock at some time t not      *)
(* before the previous write; os.path.getctime means the inode change time *)
(* on posix and the creation time on nt, so every overwrite is modelled    *)
(* with both outcomes.                                                     *)
(* The GUI handlers are modelled as written in gui_frames.py.              *)
(***************************************************************************)
EXTENDS Integers, Sequences, FiniteSets, TLC

\* ---------------------------------------------------------------- bounds
MaxTime == 3
TicksPerSec == 2
MaxWorkers == 1
MaxDialogs == 1
MaxLog == 3

\* ------------------------------------------------------------- constants
SecsPerDay == 86400

\* The orchestrator's own project name; LOGS_DIR is its logs directory.
ORCHESTRATOR == <<"Project_Orchestrator">>
LOGS_DIR == ORCHESTRATOR

\* Names a user may give to projects; the second ends in "-" + the first.
Projects == {<<"app">>, <<"my", "app">>}

NoProject == <<>>

\* The index slot of a draft file name ("-checkpoint-NEW.yaml").
NEWIDX == -1

\* The 'decisions' list of a checkpoint: [] (CLI), the TODO placeholder
\* (GUI), or what the user typed in the review dialog.
Decisions == {"empty", "TODO", "edited"}
Platforms == {"posix", "nt"}

\* The initial checkpoint of a pasted design (it always carries next_steps).
ScaffoldContent == [timestamp |-> 0, decisions |-> "empty"]

\* Processes that may run update_checkpoint_file side by side (the GUI and
\* a 'checkpoint.py update' command, or two commands).
Procs == {"gui", "cli"}

NoPath == {}

\* ------------------------------------------------------------- variables
VARIABLES
    now,              \* earliest clock reading of the next operation, in ticks
    fs,               \* checkpoint YAML files: name -> [content, ctime]
    dirs,             \* project directories brains/{project} that exist
    stateFile,        \* project_orchestrator.state.json
    current_project,  \* OrchestratorGUI.current_project
    api_status,       \* OrchestratorGUI.api_status_var
    button,           \* CheckpointFrame.create_draft_button state
    dialogs,          \* open ReviewDialog windows, topmost last
    workers,          \* run_api_draft_worker threads in flight
    fin,              \* update_checkpoint_file calls in progress, per process
    hist,             \* per project, indices returned by successful finalizes
    rcs_log,          \* reflection_logs.yaml: its YAML documents, in file order
    walks,            \* get_ai_checkpoint_draft call of each worker thread
    reflections,      \* process_reflection threads started and not yet run
    base_list,        \* argument of the last get_api_priority_list call
    sorted_list,      \* the list that call returned ({}: none yet)
    writers,          \* _append_to_rcs_logs calls in progress, per thread
    ran               \* history: "revert" once 'revert' has run, "cleanup" once
                      \* a commit has found drafts of several projects

vars == <<now, fs, dirs, stateFile, current_project, api_status,
          button, dialogs, workers, fin, hist,
          rcs_log, walks, reflections, base_list, sorted_list, writers, ran>>

\* The variables of the reflective checkpoint system (rcs_service.py,
\* ai_service.py).
rcsVars == <<rcs_log, walks, reflections, base_list, sorted_list, writers>>

\* ------------------------------------------------------------- helpers
Max(S) == CHOOSE x \in S : \A y \in S : y <= x

\* strftime('%Y-%m-%d-%H%M%S'): the clock truncated to whole seconds.
FileTimestamp(t) == t \div TicksPerSec

\* date.today().isoformat(): the clock truncated to whole days.
DateStamp(t) == FileTimestamp(t) \div SecsPerDay

IsSuffix(s, t) ==
    /\ Len(s) <= Len(t)
    /\ \A i \in 1..Len(s) : s[i] = t[Len(t) - Len(s) + i]

\* fnmatch of "*-{p}-checkpoint-<tail>.yaml" against
\* "{ts}-{n.proj}-checkpoint-<tail>.yaml" inside LOGS_DIR.
GlobMatches(p, n) == n.dir = LOGS_DIR /\ Len(p) > 0 /\ IsSuffix(p, n.proj)

DraftName(t, p) == [dir |-> LOGS_DIR, ts |-> FileTimestamp(t), proj |-> p, idx |-> NEWIDX]

ScaffoldName(t, p) == [dir |-> p, ts |-> DateStamp(t), proj |-> NoProject, idx |-> 0]

\* The checkpoint document built at time t: its 'timestamp' field is the
\* full-resolution clock, so two documents built at different times differ.
CheckpointData(t, d) == [timestamp |-> t, decisions |-> d]

\* glob(LOGS_DIR/*-{p}-checkpoint-NEW.yaml)
NewFiles(f, p) == {n \in DOMAIN f : GlobMatches(p, n) /\ n.idx = NEWIDX}

\* open(path, 'w') + safe_dump: creates or overwrites. getctime is the inode
\* change time on posix and the creation time on nt.
WriteFile(f, n, c, t, plat) ==
    LET ct == IF n \in DOMAIN f /\ plat = "nt" THEN f[n].ctime ELSE t
    IN  (n :> [content |-> c, ctime |-> ct]) @@ f

RemoveFiles(f, S) == [n \in DOMAIN f \ S |-> f[n]]

\* os.rename(old, new): the file keeps its content under the new name. (The
\* program never reads the ctime of an indexed file; it is carried along.)
RenameFile(f, old, new) == (new :> f[old]) @@ RemoveFiles(f, {old})

\* --------------------------------------------- orchestrator state file
\* read_orchestrator_state when the file is missing.
EmptyState == [managed |-> <<>>, active |-> ORCHESTRATOR]

\* get_project_paths: the latest_checkpoint of a managed project, if any.
GetProjectPaths(st, p) ==
    IF p \in DOMAIN st.managed THEN {st.managed[p].latest_checkpoint} ELSE NoPath

\* read_checkpoint: the file exists and parses (every writer stores next_steps).
ReadCheckpointOk(f, n) == n \in DOMAIN f

\* ------------------------------------------------------------ finalize
IndexedFiles(f, p) == {n \in DOMAIN f : GlobMatches(p, n) /\ n.idx # NEWIDX}

_get_next_checkpoint_index_NoIncrement(f, p) ==
    Max({0} \cup {n.idx : n \in IndexedFiles(f, p)})

_get_next_checkpoint_index(f, p) ==
    Max({0} \cup {n.idx : n \in IndexedFiles(f, p)}) + 1

\* max(new_files, key=os.path.getctime)
MostRecent(f, S) == CHOOSE n \in S : \A m \in S : f[m].ctime <= f[n].ctime

FinalizeFaults == {"none", "rename", "load", "save"}

FinalizeResult(f, st, result, path, fault) ==
    [fs |-> f, st |-> st, result |-> result, path |-> path, fault |-> fault]

\* update_checkpoint_file(p) run to completion on files f and state st.
\* fault names the I/O step that the environment makes fail, if reached.
update_checkpoint_file_StalePointer(f, st, p, fault) ==
    LET new_files == NewFiles(f, p)
        old_path == MostRecent(f, new_files)
        next_index == _get_next_checkpoint_index(f, p)
        new_path == [old_path EXCEPT !.idx = next_index]
        f2 == RenameFile(f, old_path, new_path)
        st2 == [st EXCEPT !.managed =
                   [@ EXCEPT ![p] = [@ EXCEPT !.latest_checkpoint = old_path]]]
    IN  IF new_files = {} THEN FinalizeResult(f, st, "None", NoPath, "none")
        ELSE IF fault = "rename"
        THEN FinalizeResult(f, st, "None", NoPath, "rename")
        ELSE IF fault = "load"
        THEN FinalizeResult(f2, st, "path", {new_path}, "load")
        ELSE IF p \notin DOMAIN st.managed
        THEN FinalizeResult(f2, st, "KeyError", {new_path}, "lookup")
        ELSE IF fault = "save"
        THEN FinalizeResult(f2, st, "path", {new_path}, "save")
        ELSE FinalizeResult(f2, st2, "path", {new_path}, "none")

update_checkpoint_file(f, st, p, fault) ==
    LET new_files == NewFiles(f, p)
        old_path == MostRecent(f, new_files)
        next_index == _get_next_checkpoint_index(f, p)
        new_path == [old_path EXCEPT !.idx = next_index]
        f2 == RenameFile(f, old_path, new_path)
        st2 == [st EXCEPT !.managed =
                   [@ EXCEPT ![p] = [@ EXCEPT !.latest_checkpoint = new_path]]]
    IN  IF new_files = {} THEN FinalizeResult(f, st, "None", NoPath, "none")
        ELSE IF fault = "rename"
        THEN FinalizeResult(f, st, "None", NoPath, "rename")
        ELSE IF fault = "load"
        THEN FinalizeResult(f2, st, "path", {new_path}, "load")
        ELSE IF p \notin DOMAIN st.managed
        THEN FinalizeResult(f2, st, "KeyError", {new_path}, "lookup")
        ELSE IF fault = "save"
        THEN FinalizeResult(f2, st, "path", {new_path}, "save")
        ELSE FinalizeResult(f2, st2, "path", {new_path}, "none")

RecordFinalize(h, p, r) ==
    IF r.result = "path" /\ p \in DOMAIN h
    THEN [h EXCEPT ![p] = Append(@, (CHOOSE n \in r.path : TRUE).idx)] ELSE h

\* ---------------------------------------------------------------- Init
\* The threads that append to reflection_logs.yaml: the draft worker
\* (log_api_failure) and the process_reflection thread.
Writers == {"worker", "reflection"}

\* An _append_to_rcs_logs call that is not running; pos is the end of file
\* found by the seek, wrote the entries whose write has returned.
IdleWriter == [pc |-> "idle", entry |-> <<>>, pos |-> 0, wrote |-> <<>>]

IdleFin == [pc |-> "idle", proj |-> NoProject, old |-> NoPath, next |-> 0,
            state_data |-> EmptyState]

Init ==
    /\ now = 0
    /\ fs = <<>>
    /\ dirs = {}
    /\ stateFile = EmptyState
    /\ current_project = NoProject
    /\ api_status = "CHECKING"
    /\ button = "NORMAL"
    /\ dialogs = <<>>
    /\ workers = <<>>
    /\ fin = [q \in Procs |-> IdleFin]
    /\ hist = [p \in Projects |-> <<>>]
    /\ rcs_log = <<>>
    /\ walks = <<>>
    /\ reflections = 0
    /\ base_list = <<>>
    /\ sorted_list = {}
    /\ writers = [w \in Writers |-> IdleWriter]
    /\ ran = {}

\* ------------------------------------------------------------- actions
\* The clock readings an operation that starts now may see.
Clock == now..(MaxTime - 1)

create_project_NoDirCheck(f, ds, st, p, designProj, t, plat) ==
    LET path == ScaffoldName(t, p)
        entry == [status |-> "initialized", latest_checkpoint |-> path]
    IN  IF designProj = p
        THEN [result |-> TRUE, dirs |-> ds \cup {p},
              fs |-> WriteFile(f, path, ScaffoldContent, 0, plat),
              st |-> [managed |-> (p :> entry) @@ st.managed, active |-> p]]
        ELSE [result |-> FALSE, dirs |-> ds, fs |-> f, st |-> st]

\* create_project(p, state, path, design) on files f, directories ds and
\* state st; designProj is the project named by the pasted design
\* (NoProject: the design does not parse).
create_project(f, ds, st, p, designProj, t, plat) ==
    LET path == ScaffoldName(t, p)
        entry == [status |-> "initialized", latest_checkpoint |-> path]
    IN  IF designProj = p /\ p \notin ds
        THEN [result |-> TRUE, dirs |-> ds \cup {p},
              fs |-> WriteFile(f, path, ScaffoldContent, 0, plat),
              st |-> [managed |-> (p :> entry) @@ st.managed, active |-> p]]
        ELSE [result |-> FALSE, dirs |-> ds, fs |-> f, st |-> st]

\* NewProjectFrame.scaffold_project
ScaffoldProject(p, designProj) ==
    LET r == create_project(fs, dirs, stateFile, p, designProj, now, "posix")
    IN  /\ dialogs = <<>>
        /\ dirs' = r.dirs
        /\ fs' = r.fs
        /\ stateFile' = r.st
        /\ current_project' = IF r.result THEN p ELSE current_project
        /\ UNCHANGED <<now, api_status, button, dialogs, workers, fin, hist>>

\* create_new_checkpoint(p, latest) at time t: the interactive CLI draft;
\* done is FALSE when the user enters no next step.
create_new_checkpoint(f, p, done, t, plat) ==
    IF done
    THEN [created |-> {DraftName(t, p)},
          fs |-> WriteFile(f, DraftName(t, p), CheckpointData(t, "empty"), t, plat)]
    ELSE [created |-> NoPath, fs |-> f]

\* main() for 'new': the project must be managed and its latest checkpoint
\* must load before create_new_checkpoint is called.
main_new(f, st, p, done, t, plat) ==
    LET paths == GetProjectPaths(st, p)
    IN  IF paths # NoPath /\ \A n \in paths : ReadCheckpointOk(f, n)
        THEN create_new_checkpoint(f, p, done, t, plat)
        ELSE [created |-> NoPath, fs |-> f]

\* 'checkpoint.py new --project p'
CliNew(p, done, t, plat) ==
    LET r == main_new(fs, stateFile, p, done, t, plat)
    IN  /\ fs' = r.fs
        /\ now' = IF r.created # NoPath THEN t + 1 ELSE now
        /\ UNCHANGED <<dirs, stateFile, current_project, api_status,
                       button, dialogs, workers, fin, hist>>

\* 'checkpoint.py update --project p'
CliUpdate(p, fault) ==
    LET r == update_checkpoint_file(fs, stateFile, p, fault)
    IN  /\ fs' = r.fs
        /\ stateFile' = r.st
        /\ hist' = RecordFinalize(hist, p, r)
        /\ UNCHANGED <<now, dirs, current_project, api_status, button,
                       dialogs, workers, fin>>

\* 'checkpoint.py commit --project p': main() then checkpoint.commit_changes,
\* which reads the latest checkpoint and drives git; it touches no checkpoint
\* file and no state.
CliCommit(p) ==
    /\ GetProjectPaths(stateFile, p) # NoPath
    /\ UNCHANGED vars

\* main() for 'revert' (an accepted choice of the action argument): the
\* brain, the state and the latest checkpoint are read, then no branch of
\* the dispatch at lines 555-569 applies.
main_revert_DropsLatest(f, st, p) ==
    [fs |-> RemoveFiles(f, GetProjectPaths(st, p)), st |-> st]

main_revert(f, st, p) == [fs |-> f, st |-> st]

\* 'checkpoint.py revert --project p'
CliRevert(p) ==
    LET r == main_revert(fs, stateFile, p)
    IN  /\ fs' = r.fs
        /\ stateFile' = r.st
        /\ ran' = ran \cup {"revert"}
        /\ UNCHANGED <<now, dirs, current_project, api_status, button,
                       dialogs, workers, fin, hist>>

\* ------------------------------------------------------------------ GUI
\* CheckpointFrame.check_draft_status: the new state of the create button.
check_draft_status(f, cur, status, btn) ==
    IF cur = NoProject THEN btn
    ELSE IF NewFiles(f, cur) # {} THEN "DISABLED"
    ELSE IF status # "CHECKING" THEN "NORMAL" ELSE "DISABLED"

\* CheckpointFrame.update_ui_mode: the button state it leaves behind.
update_ui_mode(status, btn) == "NORMAL"

\* DashboardFrame project selector (values: the managed projects).
SelectProject(p) ==
    /\ dialogs = <<>>
    /\ p \in DOMAIN stateFile.managed
    /\ current_project' = p
    /\ UNCHANGED <<now, fs, dirs, stateFile, api_status, button,
                   dialogs, workers, fin, hist>>

\* CheckpointFrame.on_show
ShowCheckpointFrame ==
    /\ dialogs = <<>>
    /\ button' = update_ui_mode(api_status,
                     check_draft_status(fs, current_project, api_status, button))
    /\ UNCHANGED <<now, fs, dirs, stateFile, current_project,
                   api_status, dialogs, workers, fin, hist>>

\* _run_health_check_worker: api_status_var.set(status) and its write trace
\* (update_status_color, then update_ui_mode).
HealthCheck(status) ==
    /\ api_status \in {"CHECKING", "MANUAL"}
    /\ api_status' = status
    /\ button' = update_ui_mode(status, button)
    /\ UNCHANGED <<now, fs, dirs, stateFile, current_project,
                   dialogs, workers, fin, hist>>

\* CheckpointFrame._save_draft_and_open_review at time t: the files, the
\* button and the ReviewDialog it opens (which loads the draft it is given).
_save_draft_and_open_review(f, proj, data, cur, status, btn, t, plat) ==
    LET filename == DraftName(t, proj)
        f2 == WriteFile(f, filename, data, t, plat)
    IN  [fs |-> f2,
         button |-> check_draft_status(f2, cur, status, btn),
         dialog |-> [draft_path |-> filename, draft_data |-> data]]

\* CheckpointFrame.create_draft (button click); filled: the manual fields
\* are all non-empty.
CreateDraft(filled, t, plat) ==
    LET paths == GetProjectPaths(stateFile, current_project)
        r == _save_draft_and_open_review(fs, current_project,
                 CheckpointData(t, "TODO"), current_project, api_status,
                 button, t, plat)
    IN  /\ dialogs = <<>>
        /\ button = "NORMAL"
        /\ Len(workers) < MaxWorkers
        /\ IF paths = NoPath \/ \E n \in paths : ~ReadCheckpointOk(fs, n)
           THEN UNCHANGED <<now, fs, button, dialogs, workers>>
           ELSE IF api_status = "MANUAL"
           THEN IF filled
                THEN /\ fs' = r.fs
                     /\ button' = r.button
                     /\ dialogs' = Append(dialogs, r.dialog)
                     /\ now' = t + 1
                     /\ UNCHANGED workers
                ELSE UNCHANGED <<now, fs, button, dialogs, workers>>
           ELSE /\ button' = "DISABLED"
                /\ workers' = Append(workers, current_project)
                /\ UNCHANGED <<now, fs, dialogs>>
        /\ UNCHANGED <<dirs, stateFile, current_project, api_status,
                       fin, hist>>

\* _handle_api_response, lines 472-476: a process_reflection thread is
\* started when a draft came back.
StartReflection(n, drafted) == IF drafted THEN n + 1 ELSE n

RemoveAt(q, i) == SubSeq(q, 1, i - 1) \o SubSeq(q, i + 1, Len(q))

\* CheckpointFrame._handle_api_response for worker i; drafted is FALSE when
\* get_ai_checkpoint_draft returned None.
HandleApiResponse(i, drafted, t, plat) ==
    LET proj == workers[i]
        r == _save_draft_and_open_review(fs, proj, CheckpointData(t, "TODO"),
                 current_project, api_status,
                 update_ui_mode(api_status, button), t, plat)
    IN  /\ i \in 1..Len(workers)
        /\ workers' = RemoveAt(workers, i)
        /\ IF drafted
           THEN /\ Len(dialogs) < MaxDialogs
                /\ fs' = r.fs
                /\ button' = r.button
                /\ dialogs' = Append(dialogs, r.dialog)
                /\ now' = t + 1
                /\ UNCHANGED api_status
           ELSE /\ api_status' = "MANUAL"
                /\ button' = update_ui_mode("MANUAL", button)
                /\ UNCHANGED <<now, fs, dialogs>>
        /\ UNCHANGED <<dirs, stateFile, current_project, fin, hist>>

\* ReviewDialog.save_and_finalize of the topmost dialog: the edited decisions
\* are saved into draft_path, then update_checkpoint_file runs for the
\* draft's project.
save_and_finalize(f, st, d, dec, fault, t, plat) ==
    LET data == [d.draft_data EXCEPT !.decisions = dec]
        f1 == WriteFile(f, d.draft_path, data, t, plat)
    IN  update_checkpoint_file(f1, st, d.draft_path.proj, fault)

SaveAndFinalize(dec, fault, t, plat) ==
    LET d == dialogs[Len(dialogs)]
        r == save_and_finalize(fs, stateFile, d, dec, fault, t, plat)
    IN  /\ dialogs # <<>>
        /\ now' = t + 1
        /\ fs' = r.fs
        /\ stateFile' = r.st
        /\ hist' = RecordFinalize(hist, d.draft_path.proj, r)
        /\ IF r.result = "path"
           THEN /\ dialogs' = SubSeq(dialogs, 1, Len(dialogs) - 1)
                /\ button' = update_ui_mode(api_status,
                                 check_draft_status(r.fs, current_project,
                                                    api_status, button))
           ELSE UNCHANGED <<dialogs, button>>
        /\ UNCHANGED <<dirs, current_project, api_status, workers, fin>>

\* Closing the review window without finalizing.
CloseDialog ==
    /\ dialogs # <<>>
    /\ dialogs' = SubSeq(dialogs, 1, Len(dialogs) - 1)
    /\ UNCHANGED <<now, fs, dirs, stateFile, current_project,
                   api_status, button, workers, fin, hist>>

\* glob(LOGS_DIR/*-checkpoint-NEW.yaml)
AllNewFiles(f) == {n \in DOMAIN f : n.dir = LOGS_DIR /\ n.idx = NEWIDX}

commit_changes_NewestOnly(f, repo) ==
    IF repo /\ AllNewFiles(f) # {}
    THEN RemoveFiles(f, {MostRecent(f, AllNewFiles(f))})
    ELSE f

\* git_service.commit_changes: with a repository at hand, every
\* *-checkpoint-NEW.yaml of LOGS_DIR is removed before staging.
commit_changes(f, repo) ==
    IF repo
    THEN RemoveFiles(f, {n \in DOMAIN f : n.dir = LOGS_DIR /\ n.idx = NEWIDX})
    ELSE f

\* CommitFrame.run_commit_action, confirmed by the user.
RunCommit(repo) ==
    LET paths == GetProjectPaths(stateFile, current_project)
    IN  /\ dialogs = <<>>
        /\ current_project # ORCHESTRATOR
        /\ paths # NoPath
        /\ \A n \in paths : ReadCheckpointOk(fs, n)
        /\ fs' = commit_changes(fs, repo)
        /\ ran' = IF repo /\ Cardinality({n.proj : n \in AllNewFiles(fs)}) > 1
                  THEN ran \cup {"cleanup"} ELSE ran
        /\ UNCHANGED <<now, dirs, stateFile, current_project,
                       api_status, button, dialogs, workers, fin, hist>>

\* ------------------------------------------- finalize, statement by statement
\* update_checkpoint_file run by process q, one file-system or state-file
\* access per step, so that two runs (GUI and terminal) can interleave.
new_path_of(r) == {[n EXCEPT !.idx = r.next] : n \in r.old}

\* glob of the drafts and choice of old_path (lines 340-348)
FinStart(q, p) ==
    /\ fin[q].pc = "idle"
    /\ fin' = IF NewFiles(fs, p) = {} THEN fin
              ELSE [fin EXCEPT ![q] = [IdleFin EXCEPT !.pc = "index", !.proj = p,
                                          !.old = {MostRecent(fs, NewFiles(fs, p))}]]
    /\ UNCHANGED <<now, fs, dirs, stateFile, current_project, api_status,
                   button, dialogs, workers, hist>>

\* next_index = _get_next_checkpoint_index(project_name) (line 351)
FinIndex(q) ==
    /\ fin[q].pc = "index"
    /\ fin' = [fin EXCEPT ![q].pc = "rename",
                          ![q].next = _get_next_checkpoint_index(fs, fin[q].proj)]
    /\ UNCHANGED <<now, fs, dirs, stateFile, current_project, api_status,
                   button, dialogs, workers, hist>>

\* os.rename(old_path, new_path) (line 358): OSError when old_path is gone,
\* and on nt when new_path exists; posix replaces an existing new_path.
FinRename(q, plat) ==
    /\ fin[q].pc = "rename"
    /\ \E old \in fin[q].old, new \in new_path_of(fin[q]) :
          IF old \notin DOMAIN fs \/ (new \in DOMAIN fs /\ plat = "nt")
          THEN /\ fin' = [fin EXCEPT ![q] = IdleFin]
               /\ UNCHANGED fs
          ELSE /\ fin' = [fin EXCEPT ![q].pc = "load"]
               /\ fs' = RenameFile(fs, old, new)
    /\ UNCHANGED <<now, dirs, stateFile, current_project, api_status,
                   button, dialogs, workers, hist>>

\* read_orchestrator_state and the entry update in memory (lines 362-369);
\* a project without entry raises KeyError.
FinLoad(q) ==
    /\ fin[q].pc = "load"
    /\ fin' = IF fin[q].proj \in DOMAIN stateFile.managed
              THEN [fin EXCEPT ![q].pc = "save", ![q].state_data = stateFile]
              ELSE [fin EXCEPT ![q] = IdleFin]
    /\ UNCHANGED <<now, fs, dirs, stateFile, current_project, api_status,
                   button, dialogs, workers, hist>>

\* save_orchestrator_state(state_data) and return new_path (lines 372-380)
FinSave(q) ==
    /\ fin[q].pc = "save"
    /\ \E new \in new_path_of(fin[q]) :
          /\ stateFile' = [fin[q].state_data EXCEPT
                 !.managed = [@ EXCEPT ![fin[q].proj] =
                                 [@ EXCEPT !.latest_checkpoint = new]]]
          /\ hist' = [hist EXCEPT ![fin[q].proj] = Append(@, new.idx)]
    /\ fin' = [fin EXCEPT ![q] = IdleFin]
    /\ UNCHANGED <<now, fs, dirs, current_project, api_status, button,
                   dialogs, workers>>


\* --------------------------------------- reflective checkpoint system
\* ai_service.BASE_MODEL_FALLBACK_LIST (gemini/gemini-2.5-flash,
\* openai/gpt-4o-mini, anthropic/claude-3-haiku).
BASE_MODEL_FALLBACK_LIST == <<"gemini", "openai", "anthropic">>

Models == {BASE_MODEL_FALLBACK_LIST[i] : i \in DOMAIN BASE_MODEL_FALLBACK_LIST}

\* Scores in tenths: the default priority 1.0 and the failure penalty 0.1.
NEUTRAL == 10
PENALTY == 1

\* round(0.5 + uniform(-0.1, 0.4), 2) lies in 0.4 .. 0.9; two of its values.
EfficiencyScores == {5, 8}

ErrorTypes == {"RATE_LIMIT", "VALIDATION_FAILURE"}

\* One YAML document of reflection_logs.yaml. yaml is "mapping" for a
\* document that loads as a dict, "null" for an empty document (a bare
\* "---" line: safe_load_all yields None) and "error" for text the YAML
\* scanner rejects (a write cut inside a scalar or a key). type is the
\* value of entry.get('type') ("None": no such key); model and score are
\* the model and penalty_score of a failure entry, or the one pair of
\* reflections.api_efficiency_scores.
Doc(y, ty, m, e, sc) == [yaml |-> y, type |-> ty, model |-> m, error |-> e, score |-> sc]

\* log_api_failure: failure_entry
failure_entry(model_name, error_type) ==
    Doc("mapping", "API_FAILURE", model_name, error_type, PENALTY)

\* process_reflection: reflection_log_entry. It has no 'type' key, and its
\* api_efficiency_scores always names gemini/gemini-2.5-flash.
reflection_log_entry(score) == Doc("mapping", "None", "gemini", "None", score)

\* A reflection entry that does carry type 'checkpoint' (the entries
\* get_api_priority_list looks for in branch B).
checkpoint_entry(model, score) == Doc("mapping", "checkpoint", model, "None", score)

\* What a write that was cut short leaves at the end of the file: text the
\* scanner rejects, a bare document start, or a failure entry cut before
\* its 'model' line.
TornDocs ==
    {Doc("error", "None", "None", "None", 0),
     Doc("null", "None", "None", "None", 0),
     Doc("mapping", "API_FAILURE", "None", "None", PENALTY)}

WholeDocs ==
    {failure_entry(m, "RATE_LIMIT") : m \in Models}
        \cup {checkpoint_entry(m, sc) : m \in Models, sc \in EfficiencyScores}
        \cup {reflection_log_entry(5)}

SeqsUpTo(S, n) == UNION {[1..k -> S] : k \in 0..n}

\* Contents of reflection_logs.yaml of at most n documents: whole entries,
\* the last one possibly torn. (A missing file reads like an empty one.)
LogFiles(n) ==
    SeqsUpTo(WholeDocs, n)
        \cup {Append(l, d) : l \in SeqsUpTo(WholeDocs, n - 1), d \in TornDocs}

\* _read_rcs_logs: list(yaml.safe_load_all(f)); any exception, a scanner
\* error in any document included, is caught and [] returned.
_read_rcs_logs(file) ==
    IF \E i \in DOMAIN file : file[i].yaml = "error" THEN <<>> ELSE file

\* open(RCS_LOG_PATH, 'a') + safe_dump(explicit_start=True), as one write.
_append_to_rcs_logs(file, log_entry) == Append(file, log_entry)

log_api_failure(file, model_name, error_type) ==
    _append_to_rcs_logs(file, failure_entry(model_name, error_type))

process_reflection(file, score) ==
    _append_to_rcs_logs(file, reflection_log_entry(score))

\* One pass of the loop of get_api_priority_list over a log entry.
ApplyEntry(priority_map, entry) ==
    IF entry.type = "API_FAILURE"
    THEN IF entry.model \in DOMAIN priority_map
         THEN [priority_map EXCEPT ![entry.model] = entry.score]
         ELSE priority_map
    ELSE IF entry.type = "checkpoint"
    THEN IF entry.model \in DOMAIN priority_map /\ priority_map[entry.model] > PENALTY
         THEN [priority_map EXCEPT ![entry.model] = entry.score]
         ELSE priority_map
    ELSE priority_map

RECURSIVE PriorityMap(_, _)
PriorityMap(base, logs) ==
    IF logs = <<>>
    THEN [m \in {base[i] : i \in DOMAIN base} |-> NEUTRAL]
    ELSE ApplyEntry(PriorityMap(base, SubSeq(logs, 1, Len(logs) - 1)), logs[Len(logs)])

\* sorted(base_list, key=priority_map.get, reverse=True): descending and
\* stable (equal scores keep the order of base_list).
InsertByScore_Overwrite(seq, x, priority_map) ==
    LET before == {j \in 1..Len(seq) : priority_map[seq[j]] < priority_map[x]}
        k == IF before = {} THEN Len(seq) + 1
             ELSE CHOOSE j \in before : \A i \in before : j <= i
    IN  SubSeq(seq, 1, k - 1) \o <<x>> \o SubSeq(seq, k + 1, Len(seq))

InsertByScore_Unstable(seq, x, priority_map) ==
    LET before == {j \in 1..Len(seq) : priority_map[seq[j]] <= priority_map[x]}
        k == IF before = {} THEN Len(seq) + 1
             ELSE CHOOSE j \in before : \A i \in before : j <= i
    IN  SubSeq(seq, 1, k - 1) \o <<x>> \o SubSeq(seq, k, Len(seq))

InsertByScore(seq, x, priority_map) ==
    LET before == {j \in 1..Len(seq) : priority_map[seq[j]] < priority_map[x]}
        k == IF before = {} THEN Len(seq) + 1
             ELSE CHOOSE j \in before : \A i \in before : j <= i
    IN  SubSeq(seq, 1, k - 1) \o <<x>> \o SubSeq(seq, k, Len(seq))

RECURSIVE sorted(_, _)
sorted(base, priority_map) ==
    IF base = <<>> THEN <<>>
    ELSE InsertByScore(sorted(SubSeq(base, 1, Len(base) - 1), priority_map),
                       base[Len(base)], priority_map)

\* random.shuffle(sorted_list): every rearrangement may come out.
Shuffles(l) == {[i \in 1..Len(l) |-> l[f[i]]] : f \in Permutations(1..Len(l))}

\* all(score == 1.0 for score in priority_map.values())
AllDefault_Any(priority_map) == \E m \in DOMAIN priority_map : priority_map[m] = NEUTRAL

AllDefault(priority_map) == \A m \in DOMAIN priority_map : priority_map[m] = NEUTRAL

\* get_api_priority_list(base_list) on the log file: whether it raises
\* (entry.get on a None entry), and the lists it may return.
get_api_priority_list(base, file) ==
    LET logs == _read_rcs_logs(file)
        priority_map == PriorityMap(base, logs)
        sorted_list_ == sorted(base, priority_map)
    IN  IF \E i \in DOMAIN logs : logs[i].yaml = "null"
        THEN [raised |-> TRUE, orders |-> {}]
        ELSE [raised |-> FALSE,
              orders |-> IF AllDefault(priority_map) THEN Shuffles(sorted_list_)
                         ELSE {sorted_list_}]

\* ------------------------------------------------- ranking, call by call
\* The provider lists get_api_priority_list may be handed: any list of
\* known models no longer than the base list, repetitions included.
BaseLists == SeqsUpTo(Models, Len(BASE_MODEL_FALLBACK_LIST))

\* A call get_api_priority_list(base_list) that returns; a call that raises
\* leaves everything as it was.
GetApiPriorityList ==
    LET r == get_api_priority_list(base_list, rcs_log)
    IN  /\ IF r.raised THEN UNCHANGED sorted_list
           ELSE \E order \in r.orders : sorted_list' = {order}
        /\ UNCHANGED <<now, fs, dirs, stateFile, current_project, api_status,
                       button, dialogs, workers, fin, hist,
                       rcs_log, walks, reflections, base_list, writers>>

\* A call log_api_failure(model_name, error_type) between two rankings.
LogApiFailure(model_name, error_type) ==
    /\ Len(rcs_log) < MaxLog
    /\ rcs_log' = log_api_failure(rcs_log, model_name, error_type)
    /\ sorted_list' = {}
    /\ UNCHANGED <<now, fs, dirs, stateFile, current_project, api_status,
                   button, dialogs, workers, fin, hist,
                   walks, reflections, base_list, writers>>

\* ------------------------------------- get_ai_checkpoint_draft, step by step
\* Lengths of the next_steps list a provider may send.
StepCounts == {2, 4}

\* What a provider answers to one request: a response with the fields of
\* CheckpointDraft and next_steps of some length, a response that does not
\* fit the schema, or an error (rate limit, anything else).
ProviderReplies ==
    {[kind |-> "draft", next_steps |-> n] : n \in StepCounts}
        \cup {[kind |-> x, next_steps |-> 0] : x \in {"invalid", "rate_limit", "other"}}

\* Validation against the pydantic model CheckpointDraft (lines 31-37):
\* summary and next_goal are str, next_steps is list[str]; "3-5" stands in
\* the field description only, no length is enforced.
CheckpointDraft(reply) == reply.kind = "draft" /\ reply.next_steps >= 0

\* What one provider call may end in: a schema-valid draft, or an exception
\* whose text names a rate limit, a validation problem, or anything else.
Outcomes == {"success", "rate_limit", "validation", "other"}

OutcomeOf(reply) ==
    IF reply.kind \in {"draft", "invalid"}
    THEN IF CheckpointDraft(reply) THEN "success" ELSE "validation"
    ELSE reply.kind

\* Requests one call may send: the instructor client is created with
\* max_retries=3 (line 75) and asks again after a response that fails
\* validation; litellm.completion is called with max_retries=0 (line 88).
MaxRequests(model_name) == IF model_name = "openai" THEN 3 ELSE 1

\* The call of walk w got reply and asks the same provider again.
AsksAgain(w, reply) ==
    /\ OutcomeOf(reply) = "validation"
    /\ w.requests < MaxRequests(w.list[w.i])

\* The error_type the except branch derives (lines 94-102): error_type is
\* preset to "UNKNOWN_ERROR" and then always overwritten.
ErrorType(outcome) ==
    IF outcome = "rate_limit" THEN "RATE_LIMIT" ELSE "VALIDATION_FAILURE"

\* A get_ai_checkpoint_draft call that has not started: list is
\* MODEL_FALLBACK_LIST, i the position of the for loop, inflight the
\* provider calls that have not returned, requests the requests the call
\* in flight has sent, attempts the calls made so far with their outcome,
\* logged the entries handed to log_api_failure, next_steps the length of
\* the next_steps list of the draft returned.
NewWalk ==
    [pc |-> "start", keys |-> TRUE, list |-> <<>>, i |-> 1, inflight |-> {},
     requests |-> 0, result |-> "pending", attempts |-> <<>>, logged |-> <<>>,
     next_steps |-> 0]

\* One pass of the for loop after the provider call ended with reply
\* (lines 77-107), on walk w and the log file.
attempt_step_NoReturn(w, reply, file) ==
    LET model_name == w.list[w.i]
        outcome == OutcomeOf(reply)
        error_type == ErrorType(outcome)
        w1 == [w EXCEPT !.attempts = Append(@, [model |-> model_name,
                                                outcome |-> outcome,
                                                requests |-> w.requests]),
                        !.inflight = @ \ {model_name},
                        !.requests = 0]
    IN  IF outcome = "success"
        THEN [walk |-> [w1 EXCEPT !.pc = "loop", !.i = @ + 1, !.result = "draft",
                                  !.next_steps = reply.next_steps],
              file |-> file]
        ELSE [walk |-> [w1 EXCEPT !.pc = "loop", !.i = @ + 1,
                           !.logged = Append(@, failure_entry(model_name, error_type))],
              file |-> log_api_failure(file, model_name, error_type)]

attempt_step_BreakOnFailure(w, reply, file) ==
    LET model_name == w.list[w.i]
        outcome == OutcomeOf(reply)
        error_type == ErrorType(outcome)
        w1 == [w EXCEPT !.attempts = Append(@, [model |-> model_name,
                                                outcome |-> outcome,
                                                requests |-> w.requests]),
                        !.inflight = @ \ {model_name},
                        !.requests = 0]
    IN  IF outcome = "success"
        THEN [walk |-> [w1 EXCEPT !.pc = "done", !.result = "draft",
                                  !.next_steps = reply.next_steps],
              file |-> file]
        ELSE [walk |-> [w1 EXCEPT !.pc = "done", !.result = "None",
                           !.logged = Append(@, failure_entry(model_name, error_type))],
              file |-> log_api_failure(file, model_name, error_type)]

attempt_step_AgainOnRateLimit(w, reply, file) ==
    LET model_name == w.list[w.i]
        outcome == OutcomeOf(reply)
        error_type == ErrorType(outcome)
        w1 == [w EXCEPT !.attempts = Append(@, [model |-> model_name,
                                                outcome |-> outcome,
                                                requests |-> w.requests]),
                        !.inflight = @ \ {model_name},
                        !.requests = 0]
    IN  IF outcome = "success"
        THEN [walk |-> [w1 EXCEPT !.pc = "done", !.result = "draft",
                                  !.next_steps = reply.next_steps],
              file |-> file]
        ELSE [walk |-> [w1 EXCEPT !.pc = "loop",
                           !.i = IF outcome = "rate_limit" /\ w.logged = <<>>
                                 THEN @ ELSE @ + 1,
                           !.logged = Append(@, failure_entry(model_name, error_type))],
              file |-> log_api_failure(file, model_name, error_type)]

attempt_step(w, reply, file) ==
    LET model_name == w.list[w.i]
        outcome == OutcomeOf(reply)
        error_type == ErrorType(outcome)
        w1 == [w EXCEPT !.attempts = Append(@, [model |-> model_name,
                                                outcome |-> outcome,
                                                requests |-> w.requests]),
                        !.inflight = @ \ {model_name},
                        !.requests = 0]
    IN  IF outcome = "success"
        THEN [walk |-> [w1 EXCEPT !.pc = "done", !.result = "draft",
                                  !.next_steps = reply.next_steps],
              file |-> file]
        ELSE [walk |-> [w1 EXCEPT !.pc = "loop", !.i = @ + 1,
                           !.logged = Append(@, failure_entry(model_name, error_type))],
              file |-> log_api_failure(file, model_name, error_type)]

\* CheckpointFrame.create_draft with the worker thread it may start.
StartWorker(filled, t, plat) ==
    /\ CreateDraft(filled, t, plat)
    /\ walks' = IF Len(workers') > Len(workers) THEN Append(walks, NewWalk) ELSE walks
    /\ UNCHANGED <<rcs_log, reflections, base_list, sorted_list, writers>>

WalkStart_RankBeforeKeys(k, keys) ==
    LET r == get_api_priority_list(BASE_MODEL_FALLBACK_LIST, rcs_log)
    IN  /\ k \in DOMAIN walks
        /\ walks[k].pc = "start"
        /\ Len(rcs_log) < MaxLog - 1
        /\ base_list' = BASE_MODEL_FALLBACK_LIST
        /\ IF r.raised
           THEN /\ walks' = [walks EXCEPT ![k].pc = "crashed"]
                /\ sorted_list' = {}
           ELSE \E order \in r.orders :
                  /\ sorted_list' = {order}
                  /\ walks' = IF keys
                              THEN [walks EXCEPT ![k].pc = "loop", ![k].list = order]
                              ELSE [walks EXCEPT ![k].pc = "done", ![k].keys = FALSE,
                                                 ![k].result = "None"]
        /\ UNCHANGED <<now, fs, dirs, stateFile, current_project, api_status,
                       button, dialogs, workers, fin, hist,
                       rcs_log, reflections, writers>>

\* Worker k enters get_ai_checkpoint_draft (lines 50-56): without an API
\* key it returns None at once; otherwise it asks for the priority list,
\* and an exception raised there ends the thread.
WalkStart(k, keys) ==
    LET r == get_api_priority_list(BASE_MODEL_FALLBACK_LIST, rcs_log)
    IN  /\ k \in DOMAIN walks
        /\ walks[k].pc = "start"
        /\ Len(rcs_log) < MaxLog - 1
        /\ IF ~keys
           THEN /\ walks' = [walks EXCEPT ![k].pc = "done", ![k].keys = FALSE,
                                          ![k].result = "None"]
                /\ UNCHANGED <<base_list, sorted_list>>
           ELSE /\ base_list' = BASE_MODEL_FALLBACK_LIST
                /\ IF r.raised
                   THEN /\ walks' = [walks EXCEPT ![k].pc = "crashed"]
                        /\ sorted_list' = {}
                   ELSE \E order \in r.orders :
                          /\ walks' = [walks EXCEPT ![k].pc = "loop", ![k].list = order]
                          /\ sorted_list' = {order}
        /\ UNCHANGED <<now, fs, dirs, stateFile, current_project, api_status,
                       button, dialogs, workers, fin, hist,
                       rcs_log, reflections, writers>>

\* The for statement (line 59) takes the next model and calls it, or finds
\* the list exhausted and returns None (lines 109-111).
AttemptBegin(k) ==
    /\ k \in DOMAIN walks
    /\ walks[k].pc = "loop"
    /\ walks' = IF walks[k].i <= Len(walks[k].list)
                THEN [walks EXCEPT ![k].pc = "call", ![k].requests = 1,
                                   ![k].inflight = @ \cup {walks[k].list[walks[k].i]}]
                ELSE [walks EXCEPT ![k].pc = "done",
                                   ![k].result = IF walks[k].result = "draft"
                                                 THEN "draft" ELSE "None"]
    /\ UNCHANGED <<now, fs, dirs, stateFile, current_project, api_status,
                   button, dialogs, workers, fin, hist,
                   rcs_log, reflections, base_list, sorted_list, writers>>

\* The provider answers a request: the call asks again, returns or raises.
AttemptEnd(k, reply) ==
    /\ k \in DOMAIN walks
    /\ walks[k].pc = "call"
    /\ IF AsksAgain(walks[k], reply)
       THEN /\ walks' = [walks EXCEPT ![k].requests = @ + 1]
            /\ UNCHANGED rcs_log
       ELSE LET r == attempt_step(walks[k], reply, rcs_log)
            IN  /\ walks' = [walks EXCEPT ![k] = r.walk]
                /\ rcs_log' = r.file
    /\ UNCHANGED <<now, fs, dirs, stateFile, current_project, api_status,
                   button, dialogs, workers, fin, hist,
                   reflections, base_list, sorted_list, writers>>

\* run_api_draft_worker hands the result to _handle_api_response (lines
\* 427-430), which starts the process_reflection thread for a draft.
WorkerDone(k, t, plat) ==
    /\ k \in DOMAIN walks
    /\ walks[k].pc = "done"
    /\ HandleApiResponse(k, walks[k].result = "draft", t, plat)
    /\ reflections' = StartReflection(reflections, walks[k].result = "draft")
    /\ walks' = RemoveAt(walks, k)
    /\ UNCHANGED <<rcs_log, base_list, sorted_list, writers>>

\* The process_reflection thread runs: one entry is appended.
ProcessReflection(score) ==
    /\ reflections > 0
    /\ reflections' = reflections - 1
    /\ rcs_log' = process_reflection(rcs_log, score)
    /\ UNCHANGED <<now, fs, dirs, stateFile, current_project, api_status,
                   button, dialogs, workers, fin, hist,
                   walks, base_list, sorted_list, writers>>

\* ------------------------------- _append_to_rcs_logs from two threads
\* The entries each thread appends.
EntriesOf(w) ==
    IF w = "worker"
    THEN {failure_entry(m, e) : m \in Models, e \in ErrorTypes}
    ELSE {reflection_log_entry(sc) : sc \in EfficiencyScores}

\* Appends begun so far, finished or not.
Begun ==
    Len(writers["worker"].wrote) + Len(writers["reflection"].wrote)
        + Cardinality({w \in Writers : writers[w].pc # "idle"})

\* What a write of log_entry at document offset pos leaves in the file. At
\* the end of the file it appends. Below the end it lands on the document
\* another thread wrote there meanwhile: that document is replaced by
\* log_entry, or left as a mix of both texts that no longer parses.
WriteAt(file, pos, log_entry) ==
    IF pos = Len(file)
    THEN {_append_to_rcs_logs(file, log_entry)}
    ELSE {[file EXCEPT ![pos + 1] = log_entry],
          [file EXCEPT ![pos + 1] = Doc("error", "None", "None", "None", 0)]}

\* posix: the file is opened with O_APPEND and the buffered document goes
\* out in one write at the current end of the file. Both threads run on
\* the same platform, so no seek of the other thread is pending.
AppendAtomic(w, log_entry) ==
    /\ \A v \in Writers : writers[v].pc = "idle"
    /\ Begun < MaxLog
    /\ rcs_log' = _append_to_rcs_logs(rcs_log, log_entry)
    /\ writers' = [writers EXCEPT ![w].wrote = Append(@, log_entry)]
    /\ UNCHANGED <<now, fs, dirs, stateFile, current_project, api_status,
                   button, dialogs, workers, fin, hist,
                   walks, reflections, base_list, sorted_list>>

\* nt: an append is a seek to the end of the file ...
AppendSeek(w, log_entry) ==
    /\ writers[w].pc = "idle"
    /\ Begun < MaxLog
    /\ writers' = [writers EXCEPT ![w].pc = "seeked", ![w].entry = log_entry,
                                  ![w].pos = Len(rcs_log)]
    /\ UNCHANGED <<now, fs, dirs, stateFile, current_project, api_status,
                   button, dialogs, workers, fin, hist,
                   rcs_log, walks, reflections, base_list, sorted_list>>

\* ... followed by a write at the offset found.
AppendWrite(w) ==
    /\ writers[w].pc = "seeked"
    /\ rcs_log' \in WriteAt(rcs_log, writers[w].pos, writers[w].entry)
    /\ writers' = [writers EXCEPT ![w].pc = "idle", ![w].entry = <<>>,
                                  ![w].pos = 0,
                                  ![w].wrote = Append(@, writers[w].entry)]
    /\ UNCHANGED <<now, fs, dirs, stateFile, current_project, api_status,
                   button, dialogs, workers, fin, hist,
                   walks, reflections, base_list, sorted_list>>

\* ---------------------------------------------------- specifications
\* Project scaffolding, project selection and the commit clean-up.
Housekeeping ==
    \/ \E p \in Projects, d \in Projects \cup {NoProject} :
          ScaffoldProject(p, d) /\ UNCHANGED <<rcsVars, ran>>
    \/ \E p \in Projects : SelectProject(p) /\ UNCHANGED <<rcsVars, ran>>
    \/ \E repo \in BOOLEAN : RunCommit(repo) /\ UNCHANGED rcsVars

\* The command-line lifecycle: 'new', 'update', 'commit', 'revert'.
Next ==
    \/ Housekeeping
    \/ \E p \in Projects, done \in BOOLEAN, t \in Clock, plat \in Platforms :
          CliNew(p, done, t, plat) /\ UNCHANGED <<rcsVars, ran>>
    \/ \E p \in Projects, fault \in FinalizeFaults :
          CliUpdate(p, fault) /\ UNCHANGED <<rcsVars, ran>>
    \/ \E p \in Projects : CliCommit(p)
    \/ \E p \in Projects : CliRevert(p) /\ UNCHANGED rcsVars

Spec == Init /\ [][Next]_vars

\* The GUI lifecycle: CheckpointFrame and ReviewDialog, with 'new' run from
\* a terminal beside the window.
NextGui ==
    \/ Housekeeping
    \/ ShowCheckpointFrame /\ UNCHANGED <<rcsVars, ran>>
    \/ \E status \in {"AUTO", "MANUAL"} : HealthCheck(status) /\ UNCHANGED <<rcsVars, ran>>
    \/ \E filled \in BOOLEAN, t \in Clock, plat \in Platforms :
          CreateDraft(filled, t, plat) /\ UNCHANGED <<rcsVars, ran>>
    \/ \E i \in 1..MaxWorkers, drafted \in BOOLEAN, t \in Clock, plat \in Platforms :
          /\ HandleApiResponse(i, drafted, t, plat)
          /\ reflections' = StartReflection(reflections, drafted)
          /\ UNCHANGED <<rcs_log, walks, base_list, sorted_list, writers, ran>>
    \/ \E dec \in {"edited", "empty"}, fault \in FinalizeFaults, t \in Clock,
          plat \in Platforms :
          SaveAndFinalize(dec, fault, t, plat) /\ UNCHANGED <<rcsVars, ran>>
    \/ CloseDialog /\ UNCHANGED <<rcsVars, ran>>
    \/ \E p \in Projects, done \in BOOLEAN, t \in Clock, plat \in Platforms :
          CliNew(p, done, t, plat) /\ UNCHANGED <<rcsVars, ran>>

SpecGui == Init /\ [][NextGui]_vars

\* Two finalize runs side by side (GUI and terminal), with 'new' and the
\* housekeeping operations between their steps.
NextConc ==
    \/ Housekeeping
    \/ \E p \in Projects, done \in BOOLEAN, t \in Clock, plat \in Platforms :
          CliNew(p, done, t, plat) /\ UNCHANGED <<rcsVars, ran>>
    \/ \E q \in Procs, p \in Projects : FinStart(q, p) /\ UNCHANGED <<rcsVars, ran>>
    \/ \E q \in Procs : FinIndex(q) /\ UNCHANGED <<rcsVars, ran>>
    \/ \E q \in Procs, plat \in Platforms : FinRename(q, plat) /\ UNCHANGED <<rcsVars, ran>>
    \/ \E q \in Procs : FinLoad(q) /\ UNCHANGED <<rcsVars, ran>>
    \/ \E q \in Procs : FinSave(q) /\ UNCHANGED <<rcsVars, ran>>

SpecConc == Init /\ [][NextConc]_vars

\* get_api_priority_list as a function of its argument and of the log
\* file it finds: both are drawn at the start, the log then grows by
\* failure entries.
InitRank ==
    /\ now = 0
    /\ fs = <<>>
    /\ dirs = {}
    /\ stateFile = EmptyState
    /\ current_project = NoProject
    /\ api_status = "CHECKING"
    /\ button = "NORMAL"
    /\ dialogs = <<>>
    /\ workers = <<>>
    /\ fin = [q \in Procs |-> IdleFin]
    /\ hist = [p \in Projects |-> <<>>]
    /\ rcs_log \in LogFiles(MaxLog - 1)
    /\ walks = <<>>
    /\ reflections = 0
    /\ base_list \in BaseLists
    /\ sorted_list = {}
    /\ writers = [w \in Writers |-> IdleWriter]
    /\ ran = {}

NextRank ==
    \/ GetApiPriorityList /\ UNCHANGED ran
    \/ \E m \in Models, e \in ErrorTypes : LogApiFailure(m, e) /\ UNCHANGED ran

SpecRank == InitRank /\ [][NextRank]_vars

\* The AUTO draft path of the GUI: create_draft, the worker's walk over
\* the providers, _handle_api_response and the reflection thread.
NextDraft ==
    \/ \E p \in Projects : ScaffoldProject(p, p) /\ UNCHANGED <<rcsVars, ran>>
    \/ \E status \in {"AUTO", "MANUAL"} : HealthCheck(status) /\ UNCHANGED <<rcsVars, ran>>
    \/ \E filled \in BOOLEAN, t \in Clock, plat \in Platforms :
          StartWorker(filled, t, plat) /\ UNCHANGED ran
    \/ \E k \in 1..MaxWorkers, keys \in BOOLEAN : WalkStart(k, keys) /\ UNCHANGED ran
    \/ \E k \in 1..MaxWorkers : AttemptBegin(k) /\ UNCHANGED ran
    \/ \E k \in 1..MaxWorkers, reply \in ProviderReplies :
          AttemptEnd(k, reply) /\ UNCHANGED ran
    \/ \E k \in 1..MaxWorkers, t \in Clock, plat \in Platforms :
          WorkerDone(k, t, plat) /\ UNCHANGED ran
    \/ \E score \in EfficiencyScores : ProcessReflection(score) /\ UNCHANGED ran
    \/ CloseDialog /\ UNCHANGED <<rcsVars, ran>>

SpecDraft == Init /\ [][NextDraft]_vars

\* The draft worker and the process_reflection thread appending to the
\* log with no lock between them.
NextLog ==
    \/ \E w \in Writers : \E log_entry \in EntriesOf(w) :
          AppendAtomic(w, log_entry) /\ UNCHANGED ran
    \/ \E w \in Writers : \E log_entry \in EntriesOf(w) :
          AppendSeek(w, log_entry) /\ UNCHANGED ran
    \/ \E w \in Writers : AppendWrite(w) /\ UNCHANGED ran

SpecLog == Init /\ [][NextLog]_vars

\* ---------------------------------------------------------------- claims
\* The records of project p: its pending drafts and its indexed records in
\* LOGS_DIR, and its scaffold record (index 0) in its own logs directory.
DraftsOf(f, p) == {n \in DOMAIN f : n.dir = LOGS_DIR /\ n.idx = NEWIDX /\ n.proj = p}

FinalizedOf(f, p) ==
    {n \in DOMAIN f : n.idx # NEWIDX /\ ((n.dir = LOGS_DIR /\ n.proj = p) \/ n.dir = p)}

LatestCheckpoint(st, p) == st.managed[p].latest_checkpoint

\* A draft of project p is created by this step (CLI 'new', GUI MANUAL
\* create_draft, or the GUI AUTO response handler).
CreateSucceeds(p) ==
    \/ \E t \in Clock, plat \in Platforms :
          /\ CliNew(p, TRUE, t, plat)
          /\ main_new(fs, stateFile, p, TRUE, t, plat).created # NoPath
    \/ \E t \in Clock, plat \in Platforms :
          /\ current_project = p
          /\ CreateDraft(TRUE, t, plat)
          /\ Len(dialogs') > Len(dialogs)
    \/ \E i \in 1..Len(workers), t \in Clock, plat \in Platforms :
          /\ workers[i] = p
          /\ HandleApiResponse(i, TRUE, t, plat)

\* C1: in every reachable state each project has at most one Draft-status
\* (checkpoint-NEW) record.
C1_AtMostOneDraft == \A p \in Projects : Cardinality(DraftsOf(fs, p)) <= 1

\* C2: a create_draft for a project that already has a pending draft never
\* succeeds (it is rejected with DraftConflict).
C2_SecondCreateRejected ==
    [][\A p \in Projects : CreateSucceeds(p) => DraftsOf(fs, p) = {}]_vars

\* C3: a create_draft issued while a draft of the project is pending leaves
\* that draft in place under the same name with the same content, also when
\* both creations carry the same creation timestamp.
C3_FirstDraftUntouched ==
    [][\A p \in Projects : CreateSucceeds(p) =>
          \A n \in DraftsOf(fs, p) :
              n \in DOMAIN fs' /\ fs'[n].content = fs[n].content]_vars

\* C4: successive successful finalize calls on one project assign 0, 1, 2,
\* ...: each the previous one's index plus one, the first 0.
C4_ConsecutiveFromZero ==
    \A p \in Projects : \A k \in 1..Len(hist[p]) : hist[p][k] = k - 1

\* C5: the finalized sequence indices of each project form a contiguous
\* ascending range: no index used twice, no index skipped.
C5_ContiguousIndices ==
    \A p \in Projects :
        LET recs == FinalizedOf(fs, p)
            S == {n.idx : n \in recs}
        IN  /\ \A n, m \in recs : n.idx = m.idx => n = m
            /\ \A i \in S : i = 0 \/ (i - 1) \in S

\* The finalize step of 'update --project p' renames a draft in this step.
Finalizes(p, fault) ==
    /\ CliUpdate(p, fault)
    /\ update_checkpoint_file(fs, stateFile, p, fault).path # NoPath

C7_SuccessUpdatesPointer ==
    [][\A p \in Projects, fault \in FinalizeFaults :
          LET r == update_checkpoint_file(fs, stateFile, p, fault)
          IN  (CliUpdate(p, fault) /\ r.result = "path") =>
                  GetProjectPaths(stateFile', p) = r.path]_vars

\* C8: if a step of finalize fails (rename, state load, entry lookup, state
\* save), no file and no pointer has changed and finalize does not return a
\* path.
C8_AllOrNothing ==
    [][\A p \in Projects, fault \in FinalizeFaults :
          LET r == update_checkpoint_file(fs, stateFile, p, fault)
          IN  (CliUpdate(p, fault) /\ r.fault # "none") =>
                  (fs' = fs /\ stateFile' = stateFile /\ r.result = "None")]_vars

\* C9: every latest_checkpoint of the state file names a file that exists
\* and carries an index (never a draft, never a missing file).
C9_PointerValid ==
    \A p \in DOMAIN stateFile.managed :
        /\ LatestCheckpoint(stateFile, p) \in DOMAIN fs
        /\ LatestCheckpoint(stateFile, p).idx # NEWIDX

\* C9 witness: a pointer set by finalize, with a draft pending beside it.
C9_Witness ==
    \E p \in DOMAIN stateFile.managed :
        /\ LatestCheckpoint(stateFile, p).idx >= 1
        /\ DraftsOf(fs, p) # {}

\* C10: two finalize runs on one project never leave two finalized records
\* of the project with the same index, and every index handed out by a
\* successful finalize of the project is handed out once.
C10_NoDuplicateIndex ==
    /\ \A p \in Projects : \A n, m \in FinalizedOf(fs, p) : n.idx = m.idx => n = m
    /\ \A p \in Projects : \A j, k \in 1..Len(hist[p]) :
           hist[p][j] = hist[p][k] => j = k

\* ------------------------------------ claims on finalize and the records
\* What the caller of update_checkpoint_file gets back.
Returned(r) == <<r.result, r.path>>

\* The draft of project p that was created last: every draft document
\* carries the clock reading of its creation.
NewestDraft(f, p) ==
    CHOOSE d \in DraftsOf(f, p) :
        \A e \in DraftsOf(f, p) : f[e].content.timestamp <= f[d].content.timestamp

\* C21: when finalize finds several drafts of the project it finalizes the
\* one created last, leaves the others in place, and what it returns tells
\* the caller of the anomaly (it differs from what the same call returns
\* when that draft is the only one).
C21_NewestChosenAndReported ==
    [][\A p \in Projects, fault \in FinalizeFaults :
          (Finalizes(p, fault) /\ Cardinality(DraftsOf(fs, p)) > 1) =>
              LET newest == NewestDraft(fs, p)
                  others == DraftsOf(fs, p) \ {newest}
                  r == update_checkpoint_file(fs, stateFile, p, fault)
                  alone == update_checkpoint_file(RemoveFiles(fs, others),
                                                  stateFile, p, fault)
              IN  /\ newest \notin DOMAIN fs'
                  /\ \A d \in others : d \in DOMAIN fs' /\ fs'[d] = fs[d]
                  /\ Returned(r) # Returned(alone)]_vars

\* C22: finalize of a project without a pending draft returns no path,
\* creates no indexed record and leaves every file and every pointer as
\* it was.
C22_RequiresDraft ==
    [][\A p \in Projects, fault \in FinalizeFaults :
          (CliUpdate(p, fault) /\ DraftsOf(fs, p) = {}) =>
              /\ update_checkpoint_file(fs, stateFile, p, fault).result = "None"
              /\ fs' = fs
              /\ stateFile' = stateFile]_vars

\* Project p had a latest_checkpoint and this step removed or changed it.
PointerChanged(p) ==
    /\ p \in DOMAIN stateFile.managed
    /\ \/ p \notin DOMAIN stateFile'.managed
       \/ LatestCheckpoint(stateFile', p) # LatestCheckpoint(stateFile, p)

\* C23: a latest_checkpoint that is set changes only in a step in which a
\* finalize of that very project returns the new path.
C23_PointerOnlyByFinalize ==
    [][\A p \in Projects :
          PointerChanged(p) => Len(hist'[p]) = Len(hist[p]) + 1]_vars

\* C24: a file that carries an index keeps its name and its content in
\* every later step.
C24_FinalizedImmutable ==
    [][\A n \in DOMAIN fs :
          n.idx # NEWIDX =>
              (n \in DOMAIN fs' /\ fs'[n].content = fs[n].content)]_vars

\* ------------------------------------------------ claims on the ranking
Range(l) == {l[i] : i \in DOMAIN l}

Count(l, x) == Cardinality({i \in DOMAIN l : l[i] = x})

\* The history a ranking works from, and the scores it derives.
History == _read_rcs_logs(rcs_log)

Score(m) == PriorityMap(base_list, History)[m]

\* The entries of the history that are outcomes of provider m: failures,
\* and reflection entries carrying an efficiency score for m.
OutcomesOf(m) ==
    {i \in DOMAIN History : History[i].yaml = "mapping" /\ History[i].model = m}

LastIsFailure(m) ==
    /\ OutcomesOf(m) # {}
    /\ History[Max(OutcomesOf(m))].type = "API_FAILURE"

LastIsSuccess(m) ==
    /\ OutcomesOf(m) # {}
    /\ History[Max(OutcomesOf(m))].type # "API_FAILURE"
    /\ History[Max(OutcomesOf(m))].score > 0

\* C11: every list get_api_priority_list returns holds the elements of its
\* argument, each as often as the argument does, and nothing else.
C11_RankIsPermutation ==
    \A order \in sorted_list :
        /\ Len(order) = Len(base_list)
        /\ \A m \in Models : Count(order, m) = Count(base_list, m)

\* C11 witness: a list with a repeated model was ranked against a
\* non-empty history and came back in a different order.
C11_Witness ==
    \E order \in sorted_list :
        /\ order # base_list
        /\ \E m \in Models : Count(base_list, m) = 2
        /\ History # <<>>
        /\ \E m \in Range(base_list) : Score(m) # NEUTRAL

\* C12: a provider whose latest outcome is a failure scores at most 0.1 and
\* comes after every provider whose latest outcome is a success with a
\* positive score, unless all providers carry the same score.
C12_FailedRanksBelowSucceeded ==
    \A order \in sorted_list : \A p, q \in Range(base_list) :
        (LastIsFailure(p) /\ LastIsSuccess(q)) =>
            /\ Score(p) <= PENALTY
            /\ \/ \A i, j \in DOMAIN order : (order[i] = p /\ order[j] = q) => j < i
               \/ \A m \in Range(base_list) : Score(m) = Score(p)

\* Some entry of the history sets the score of a listed provider.
Touched ==
    \E i \in DOMAIN History :
        /\ History[i].type \in {"API_FAILURE", "checkpoint"}
        /\ History[i].model \in Range(base_list)

Rearrangements(l) ==
    {o \in [1..Len(l) -> Range(l)] : \A m \in Range(l) : Count(o, m) = Count(l, m)}

IsPrefix(a, b) == Len(a) <= Len(b) /\ SubSeq(b, 1, Len(a)) = a

\* The attempts of walk w that raised.
Failed(w) == {j \in DOMAIN w.attempts : w.attempts[j].outcome # "success"}

\* Walk w has called the providers of its list from the top, one after the
\* other, it ended at the first draft, and it handed log_api_failure a
\* failure for each provider called before, in the order of the calls.
WalkInOrder(w) ==
    /\ Len(w.attempts) <= Len(w.list)
    /\ \A j \in DOMAIN w.attempts : w.attempts[j].model = w.list[j]
    /\ Cardinality(w.inflight) <= 1
    /\ w.inflight # {} =>
          /\ w.pc = "call"
          /\ w.inflight = {w.list[Len(w.attempts) + 1]}
    /\ \A j \in DOMAIN w.attempts :
          w.attempts[j].outcome = "success" =>
              /\ j = Len(w.attempts)
              /\ w.pc = "done"
              /\ w.result = "draft"
              /\ w.inflight = {}
    /\ w.result = "draft" =>
          /\ w.attempts # <<>>
          /\ w.attempts[Len(w.attempts)].outcome = "success"
    /\ Len(w.logged) = Cardinality(Failed(w))
    /\ \A j \in DOMAIN w.logged :
          /\ w.logged[j].type = "API_FAILURE"
          /\ w.logged[j].model = w.list[j]

\* C14: a draft walk calls the ranked providers one at a time from the top
\* of the list, never has two calls in flight, ends with the first valid
\* draft (which it returns, calling no later provider), and has logged a
\* failure for exactly the providers called before it, in call order.
C14_OneAtATimeInRankedOrder == \A k \in DOMAIN walks : WalkInOrder(walks[k])

\* C14 witness: the first two providers of the list failed, the third
\* returned the draft, and two failures are in the log.
C14_Witness ==
    \E k \in DOMAIN walks :
        /\ walks[k].pc = "done"
        /\ walks[k].result = "draft"
        /\ Len(walks[k].attempts) = 3
        /\ Len(walks[k].logged) = 2
        /\ Len(rcs_log) >= 2

\* Every provider of w's list was called and failed, and the walk handed
\* one failure entry for each to log_api_failure.
Exhausted(w) ==
    /\ Len(w.attempts) = Len(w.list)
    /\ Failed(w) = DOMAIN w.attempts
    /\ Len(w.logged) = Len(w.list)
    /\ \A m \in Range(w.list) :
          Cardinality({j \in DOMAIN w.logged :
                          w.logged[j].type = "API_FAILURE" /\ w.logged[j].model = m}) = 1

\* C15: when a walk that had API keys returns None, every provider of the
\* ranked list was called and failed, exactly one failure entry per
\* provider was logged, and handling the result creates no draft file,
\* opens no review and leaves the status MANUAL.
C15_ExhaustedLeavesNoDraft ==
    [][\A k \in DOMAIN walks :
          (/\ walks[k].pc = "done"
           /\ walks[k].keys
           /\ walks[k].result = "None"
           /\ walks' = RemoveAt(walks, k)) =>
              /\ Exhausted(walks[k])
              /\ fs' = fs
              /\ dialogs' = dialogs
              /\ reflections' = reflections
              /\ api_status' = "MANUAL"]_vars

\* C15 witness: all three providers failed, the result was handled, three
\* failures for three providers are in the log and no draft file exists.
C15_Witness ==
    /\ walks = <<>>
    /\ workers = <<>>
    /\ api_status = "MANUAL"
    /\ Len(rcs_log) = 3
    /\ \A i \in DOMAIN rcs_log : rcs_log[i].type = "API_FAILURE"
    /\ {rcs_log[i].model : i \in DOMAIN rcs_log} = Models
    /\ \A p \in Projects : DraftsOf(fs, p) = {}

\* C16: a walk has appended as many entries as it has made provider calls,
\* the successful call included.
C16_EveryAttemptLogged ==
    \A k \in DOMAIN walks :
        walks[k].pc = "done" => Len(walks[k].logged) = Len(walks[k].attempts)

\* The kind the claim assigns to a failure.
ClaimedKind(outcome) ==
    IF outcome = "rate_limit" THEN "RATE_LIMIT"
    ELSE IF outcome = "validation" THEN "VALIDATION_FAILURE"
    ELSE "UNKNOWN_ERROR"

\* C17: each failed call is logged with its own kind: rate limit,
\* validation failure, or (for anything else) a third kind.
C17_ThreeKinds ==
    \A k \in DOMAIN walks : \A j \in DOMAIN walks[k].logged :
        walks[k].logged[j].error = ClaimedKind(walks[k].attempts[j].outcome)

\* C18: every step of the appending threads leaves the stored entries in
\* place: what is read after the step starts with what was read before it,
\* at most one entry was added (at the end), and a read returns the whole
\* store in file order.
C18_AppendOnly ==
    [][LET before == _read_rcs_logs(rcs_log)
           after  == _read_rcs_logs(rcs_log')
       IN  /\ IsPrefix(before, after)
           /\ Len(after) <= Len(before) + 1
           /\ after = rcs_log']_vars

\* C19: when the last document of the log is malformed and the documents
\* before it are whole, a read returns those documents and the ranking is
\* the one their history gives.
C19_TrailingMalformedSkipped ==
    LET n == Len(rcs_log)
        earlier == SubSeq(rcs_log, 1, n - 1)
    IN  (/\ n >= 1
         /\ rcs_log[n] \in TornDocs
         /\ \A i \in 1..(n - 1) : rcs_log[i] \in WholeDocs) =>
            /\ _read_rcs_logs(rcs_log) = earlier
            /\ get_api_priority_list(base_list, rcs_log)
                  = get_api_priority_list(base_list, earlier)

\* C20: whatever the interleaving of the two threads, the log holds every
\* entry whose append has returned, whole, and nothing else.
C20_AppendsWhole ==
    /\ \A i \in DOMAIN rcs_log : rcs_log[i].yaml = "mapping"
    /\ Len(rcs_log) = Len(writers["worker"].wrote) + Len(writers["reflection"].wrote)
    /\ \A w \in Writers : \A j \in DOMAIN writers[w].wrote :
          writers[w].wrote[j] \in Range(rcs_log)

\* C26: a provider whose failure entry is followed by a success score
\* above 0.1 as its latest outcome scores above 0.1 and is ranked before
\* every provider whose latest outcome is a failure.
C26_SuccessSupersedesPenalty ==
    \A order \in sorted_list : \A m \in Range(base_list) :
        (/\ LastIsSuccess(m)
         /\ History[Max(OutcomesOf(m))].score > PENALTY
         /\ \E i \in OutcomesOf(m) : History[i].type = "API_FAILURE") =>
            /\ Score(m) > PENALTY
            /\ \A q \in Range(base_list) : LastIsFailure(q) =>
                  \A i, j \in DOMAIN order :
                      (order[i] = m /\ order[j] = q) => i < j

\* order is base sorted by descending score, equal scores in the order of
\* base: f names, for each place of order, the place of base it comes from.
StableDescending(order, base, score(_)) ==
    /\ Len(order) = Len(base)
    /\ \E f \in Permutations(1..Len(base)) :
          /\ \A i \in 1..Len(base) : order[i] = base[f[i]]
          /\ \A i, j \in 1..Len(base) :
                i < j => \/ score(order[i]) > score(order[j])
                         \/ score(order[i]) = score(order[j]) /\ f[i] < f[j]

\* C27 (as claimed): unless the history is empty, every list the ranking may
\* return is the argument sorted by descending score with ties in input
\* order.
C27_StableUnlessNoHistory ==
    LET r == get_api_priority_list(base_list, rcs_log)
    IN  (History # <<>> /\ ~r.raised) =>
            \A order \in r.orders : StableDescending(order, base_list, Score)

\* C27 (amended): unless every provider carries the neutral score (with or
\* without history), every list the ranking may return is the argument
\* sorted by descending score with ties in input order.
C27_StableUnlessAllNeutral ==
    LET r == get_api_priority_list(base_list, rcs_log)
    IN  (~r.raised /\ \E m \in Range(base_list) : Score(m) # NEUTRAL) =>
            \A order \in r.orders : StableDescending(order, base_list, Score)

\* C27 witness: a list of three providers came back reordered, two of
\* them with equal scores in their input order behind or before a third
\* with another score.
C27_Witness ==
    \E order \in sorted_list :
        /\ Len(order) = 3
        /\ order # base_list
        /\ \E i, j \in 1..3 :
              /\ i < j
              /\ order[i] # order[j]
              /\ Score(order[i]) = Score(order[j])
        /\ \E m \in Range(base_list) : Score(m) # NEUTRAL

RECURSIVE Sum(_)
Sum(s) == IF s = <<>> THEN 0 ELSE Head(s) + Sum(Tail(s))

\* The success scores of provider m in the history, oldest first, cut to
\* the ten most recent.
RecentScores(m) ==
    LET idx == {i \in OutcomesOf(m) : History[i].type = "checkpoint"}
        all == [k \in 1..Cardinality(idx) |->
                   History[CHOOSE i \in idx :
                              Cardinality({j \in idx : j <= i}) = k].score]
    IN  SubSeq(all, Max({1, Len(all) - 9}), Len(all))

\* C28: a provider without history scores 1.0, and the score of a provider
\* with success scores only is their average over the ten most recent
\* with the latest counted twice.
C28_WeightedAverage ==
    \A m \in Range(base_list) :
        LET s == RecentScores(m)
        IN  /\ OutcomesOf(m) = {} => Score(m) = NEUTRAL
            /\ (s # <<>> /\ \A i \in OutcomesOf(m) : History[i].type = "checkpoint") =>
                  Score(m) * (Len(s) + 1) = Sum(s) + s[Len(s)]

\* C29: in one draft call no provider is called twice, a provider whose
\* call failed is not called again, and the calls made or in flight never
\* outnumber the ranked list.
C29_EachProviderOnce ==
    \A k \in DOMAIN walks :
        LET w == walks[k]
        IN  /\ \A i, j \in DOMAIN w.attempts :
                  w.attempts[i].model = w.attempts[j].model => i = j
            /\ \A m \in w.inflight : \A j \in DOMAIN w.attempts : w.attempts[j].model # m
            /\ Len(w.attempts) + Cardinality(w.inflight) <= Len(w.list)

\* C29 witness: all three providers were called and failed, one call each,
\* the instructor call having sent its three requests.
C29_Witness ==
    \E k \in DOMAIN walks :
        /\ walks[k].pc = "done"
        /\ walks[k].result = "None"
        /\ Len(walks[k].attempts) = 3
        /\ \E j \in 1..3 : walks[k].attempts[j].requests = 3

\* C30: a draft that a walk returns has between 3 and 5 next_steps.
C30_ThreeToFiveSteps ==
    \A k \in DOMAIN walks :
        walks[k].result = "draft" => walks[k].next_steps \in 3..5

\* Provider a stands before provider b in order.
Before(order, a, b) ==
    \E i, j \in DOMAIN order : i < j /\ order[i] = a /\ order[j] = b

\* The providers the log file holds no failure entry for.
NeverFailed(file) ==
    {m \in Models : \A i \in DOMAIN file :
                       ~(file[i].type = "API_FAILURE" /\ file[i].model = m)}

\* C25: when the last thing written to the log is the failure of a
\* provider, the next ranking of the providers of a draft call puts that
\* provider after every provider without a failure in the log.
C25_FailedProviderDeprioritized ==
    [][\A x \in Models, e \in ErrorTypes :
          (/\ GetApiPriorityList
           /\ base_list = BASE_MODEL_FALLBACK_LIST
           /\ ~get_api_priority_list(base_list, rcs_log).raised
           /\ rcs_log # <<>>
           /\ rcs_log[Len(rcs_log)] = failure_entry(x, e))
              => \A order \in sorted_list' :
                    \A m \in NeverFailed(rcs_log) : Before(order, m, x)]_vars

\* ------------------------------------ claims on the lifecycle as a whole
\* C31: a finalize of project p that succeeds while p has exactly one
\* pending draft leaves p without a pending draft, and a 'new' for p run
\* right after it creates a draft.
C31_CycleRepeats ==
    [][\A p \in Projects, fault \in FinalizeFaults :
          (/\ Finalizes(p, fault)
           /\ update_checkpoint_file(fs, stateFile, p, fault).result = "path"
           /\ Cardinality(DraftsOf(fs, p)) = 1)
              => /\ DraftsOf(fs', p) = {}
                 /\ main_new(fs', stateFile', p, TRUE, now', "posix").created # NoPath]_vars

\* C32: a 'revert' run creates, modifies or deletes no checkpoint file
\* (record or draft), no latest_checkpoint entry and no log entry.
C32_RevertChangesNothing ==
    [][\A p \in Projects : CliRevert(p) =>
          /\ fs' = fs
          /\ stateFile' = stateFile
          /\ rcs_log' = rcs_log]_vars

\* C32 witness: 'revert' has run, and a scaffold record, a finalized record
\* and a pending draft are in place.
C32_Witness ==
    /\ "revert" \in ran
    /\ \E p \in DOMAIN stateFile.managed :
          /\ LatestCheckpoint(stateFile, p) \in DOMAIN fs
          /\ DraftsOf(fs, p) # {}
          /\ \E n \in FinalizedOf(fs, p) : n.idx >= 1

\* The providers the log file holds a failure entry for.
EverFailed(file) == Models \ NeverFailed(file)

\* C33: when the log holds a failure entry for every provider of the base
\* list, a ranking returns the base list in its own order, whatever else
\* the log holds.
C33_AllFailedKeepsBaseOrder ==
    [][(/\ GetApiPriorityList
        /\ ~get_api_priority_list(base_list, rcs_log).raised
        /\ base_list # <<>>
        /\ Range(base_list) \subseteq EverFailed(rcs_log))
           => sorted_list' = {base_list}]_vars

\* C34: a finalize of project p renames a draft of p and no file of another
\* project, and the index it assigns is one above the indices of p's own
\* indexed records in the logs directory (1 when p has none there).
C34_FinalizeIsolated ==
    [][\A p \in Projects, fault \in FinalizeFaults : Finalizes(p, fault) =>
          LET own == {n.idx : n \in {m \in FinalizedOf(fs, p) : m.dir = LOGS_DIR}}
          IN  /\ \A n \in DOMAIN fs : n.proj # p => (n \in DOMAIN fs' /\ fs'[n] = fs[n])
              /\ \A n \in DOMAIN fs' \ DOMAIN fs :
                    /\ n.proj = p
                    /\ n.idx = Max({0} \cup own) + 1]_vars

\* C35: the record a 'Save & Finalize' creates is the draft its dialog
\* loaded: the file that receives the index is draft_path, and it holds the
\* decisions just saved.
C35_ReviewedDraftFinalized ==
    [][\A dec \in {"edited", "empty"}, fault \in FinalizeFaults, t \in Clock,
          plat \in Platforms :
          LET d == dialogs[Len(dialogs)]
              r == save_and_finalize(fs, stateFile, d, dec, fault, t, plat)
          IN  (SaveAndFinalize(dec, fault, t, plat) /\ r.path # NoPath) =>
                  \A n \in r.path :
                      /\ [n EXCEPT !.idx = NEWIDX] = d.draft_path
                      /\ fs'[n].content.decisions = dec]_vars

C37_CreateProject ==
    [][\A p \in Projects, d \in Projects \cup {NoProject} :
          ScaffoldProject(p, d) =>
              LET r == create_project(fs, dirs, stateFile, p, d, now, "posix")
              IN  IF d = NoProject \/ d # p \/ p \in dirs
                  THEN /\ ~r.result
                       /\ stateFile' = stateFile
                       /\ fs' = fs
                       /\ dirs' = dirs
                  ELSE /\ r.result
                       /\ p \in DOMAIN stateFile'.managed
                       /\ LatestCheckpoint(stateFile', p) \in DOMAIN fs'
                       /\ LatestCheckpoint(stateFile', p).dir = p
                       /\ LatestCheckpoint(stateFile', p).idx = 0
                       /\ stateFile'.active = p
                       /\ \A n \in DOMAIN fs : n \in DOMAIN fs' /\ fs'[n] = fs[n]]_vars

\* C37 witness: both projects are registered, the one scaffolded last is the
\* active one with its pointer on its scaffold record, and the pointer of
\* the other has moved on to a finalized record.
C37_Witness ==
    \E p, q \in DOMAIN stateFile.managed :
        /\ stateFile.active = p
        /\ LatestCheckpoint(stateFile, p) = ScaffoldName(0, p)
        /\ LatestCheckpoint(stateFile, p) \in DOMAIN fs
        /\ q # p
        /\ LatestCheckpoint(stateFile, q).idx >= 1

\* C38: a draft call made without any API key returns None at once: no
\* ranking is asked for, no provider is called, nothing is appended to the
\* log, and the ranking a later call gets is what it was.
C38_NoKeysNoPenalty ==
    [][\A k \in 1..MaxWorkers : WalkStart(k, FALSE) =>
          /\ walks'[k].pc = "done"
          /\ walks'[k].result = "None"
          /\ walks'[k].attempts = <<>>
          /\ walks'[k].inflight = {}
          /\ walks'[k].logged = <<>>
          /\ base_list' = base_list
          /\ sorted_list' = sorted_list
          /\ rcs_log' = rcs_log
          /\ get_api_priority_list(BASE_MODEL_FALLBACK_LIST, rcs_log')
                = get_api_priority_list(BASE_MODEL_FALLBACK_LIST, rcs_log)]_vars

\* C38 witness: a call without keys has returned None while the log holds
\* the failure entry of an earlier call.
C38_Witness ==
    \E k \in DOMAIN walks :
        /\ ~walks[k].keys
        /\ walks[k].pc = "done"
        /\ walks[k].result = "None"
        /\ \E i \in DOMAIN rcs_log : rcs_log[i].type = "API_FAILURE"

====
